---- MODULE Spec2Model ----
(***************************************************************************)
(* A model of src/src/main.rs: the one-pass recursive-descent translator   *)
(* of a single assignment `name = expression` into WebAssembly text.       *)
(*                                                                         *)
(* A character is a one-character string, a string of the program is a     *)
(* sequence of characters, and an Option<char> is a sequence of length at  *)
(* most one (<<>> is None).  A printed line is a record [op, arg], arg the *)
(* sequence of characters interpolated into the line.  The call stack of   *)
(* the Rust program is the sequence `stack` of frames; a frame holds the   *)
(* function, the point it resumes at, and its local `name`.                *)
(*                                                                         *)
(*   input      the bytes of stdin, in the Cursor                          *)
(*   pos        the Cursor's position: the bytes read so far               *)
(*   lookahead  Compiler.lookahead                                         *)
(*   eof        read_exact has reported the end of the stream to get_char  *)
(*   out        the lines printed on stdout                                *)
(*   err        the diagnostic printed on stderr, if any                   *)
(*   stack      the call stack                                             *)
(*   status     "running"; "done": main returned; "failed": abort() has    *)
(*              called process::exit(1); "exhausted": the process died of  *)
(*              stack overflow or of a failed allocation                   *)
(***************************************************************************)
EXTENDS Integers, Sequences, FiniteSets, TLC

VARIABLES input, pos, lookahead, eof, out, err, stack, status

vars == <<input, pos, lookahead, eof, out, err, stack, status>>

-----------------------------------------------------------------------------
(* Bounds of the model. *)

\* Longest input drawn from the whole alphabet.
MaxLen == 4

\* Longest expression e of the inputs `x=` e `\n`.
MaxExprLen == 5

\* Frames the thread's stack holds before the process dies of stack overflow.
MaxStackDepth == 24

\* Characters a String holds before its allocation fails.
MaxNameLen == 10

-----------------------------------------------------------------------------
(* Characters. *)

Letters == {"a", "b", "c", "e", "i", "l", "x", "y"}

Digits == {"0", "1", "2", "3", "4", "5", "6", "7", "8", "9"}

NL == "\n"

None == <<>>

Some(c) == <<c>>

is_ascii_alphabetic(c) == c \in Letters

is_digit(c) == c \in Digits

\* Mutation: the digits taken for the alphanumeric characters.
is_ascii_alphanumeric_DigitsOnly(c) == c \in Digits

is_ascii_alphanumeric(c) == c \in Letters \cup Digits

Line(op, arg) == [op |-> op, arg |-> arg]

-----------------------------------------------------------------------------
(* The inputs. *)

Alphabet == {"x", "1", "=", "(", "-", NL}

ExprAlphabet == {"1", "2", "+", "-", "*", "(", ")"}

StringsUpTo(A, n) == UNION {[1..k -> A] : k \in 0..n}

ShortInputs == StringsUpTo(Alphabet, MaxLen)

Assign(e) == <<"x", "=">> \o e \o <<NL>>

ExprInputs == {Assign(e) : e \in StringsUpTo(ExprAlphabet, MaxExprLen)}

ExampleInputs ==
    { <<"x">>, <<"x", "=", "a">>, <<"x", "=", "(">>,
      Assign(<<"1", "+", "2", "*", "3">>),
      Assign(<<"(", "1", "+", "2", ")", "*", "3">>),
      Assign(<<"8", "-", "3", "-", "2">>),
      Assign(<<"8", "/", "2", "/", "2">>),
      Assign(<<"7", "/", "2">>),
      Assign(<<"-", "7", "/", "2">>),
      Assign(<<"1", "2">>),
      Assign(<<"y">>),
      Assign(<<"y", "1">>),
      Assign(<<"y", "(", ")">>),
      Assign(<<"a", "b", "+", "y", "(", ")", "*", "2">>),
      Assign(<<"+", "y", "-", "(", "-", "a", "/", "3", ")">>),
      Assign(<<"-", "(", "+", "1", "-", "2", ")", "*", "y">>),
      <<"=", "1", NL>>,
      <<"x", NL, "=", NL, "1", NL, NL>>,
      <<"x", "=", "1", NL, "2", NL>>,
      <<"x", "=", "y", "(", "1", ")", NL>>,
      <<"i", "a", "b", "l", "c", "e", "e">>,
      <<"i", "a", "b", "l", "c", "e", "e", NL>> }

Inputs == ShortInputs \cup ExprInputs \cup ExampleInputs

-----------------------------------------------------------------------------
(* The cursor: Compiler.input_stream and Compiler.lookahead. *)

Cur == [pos |-> pos, la |-> lookahead, eof |-> eof]

\* get_char: read one byte; at the end of the stream return None and leave the
\* look-ahead as it is; otherwise store the byte, and read on past a newline.
RECURSIVE get_char(_)
get_char(c) ==
    IF c.pos >= Len(input)
    THEN [c EXCEPT !.eof = TRUE]
    ELSE LET byte == input[c.pos + 1]
             d == [pos |-> c.pos + 1, la |-> Some(byte), eof |-> c.eof]
         IN  IF byte = NL THEN get_char(d) ELSE d

\* The `found` text of a diagnostic about the look-ahead.
Found(c) == IF c.la = None THEN "nothing" ELSE c.la[1]

\* consume_exact_char(ch): [ok, cur]; not ok is the call of expected().
consume_exact_char(ch, c) ==
    IF c.la # None /\ c.la[1] = ch
    THEN [ok |-> TRUE, cur |-> get_char(c)]
    ELSE [ok |-> FALSE, cur |-> c]

\* Mutation: the digit after the one returned is consumed as well.
consume_num_Two(c) ==
    IF c.la # None /\ is_digit(c.la[1])
    THEN [ok |-> TRUE, cur |-> get_char(get_char(c)), num |-> c.la[1]]
    ELSE [ok |-> FALSE, cur |-> c, num |-> "0"]

\* consume_num: [ok, cur, num]; not ok is the call of expected().
consume_num(c) ==
    IF c.la # None /\ is_digit(c.la[1])
    THEN [ok |-> TRUE, cur |-> get_char(c), num |-> c.la[1]]
    ELSE [ok |-> FALSE, cur |-> c, num |-> "0"]

-----------------------------------------------------------------------------
(* The call stack. *)

Frame(fn, pc) == [fn |-> fn, pc |-> pc, name |-> <<>>, ret |-> None]

Top == stack[Len(stack)]

Running == status = "running" /\ stack # <<>>

At(fn, pc) == Running /\ Top.fn = fn /\ Top.pc = pc

\* The stack with the top frame resuming at pc.
Resume(pc) == [stack EXCEPT ![Len(stack)].pc = pc]

\* The top frame resumes at pc once the call of fn returns.
Call(pc, fn) == Append(Resume(pc), Frame(fn, "start"))

\* The stack s with its top frame resuming at pc once the call of fn returns.
CallOn(s, pc, fn) ==
    Append([s EXCEPT ![Len(s)].pc = pc], Frame(fn, "start"))

\* The stack with the local `name` of the top frame set to n.
SetName(n) == [stack EXCEPT ![Len(stack)].name = n]

\* The top frame returns.
Return == SubSeq(stack, 1, Len(stack) - 1)

\* The top frame returns the name n to its caller.
ReturnName(n) ==
    LET s == Return
    IN  IF s = <<>> THEN s ELSE [s EXCEPT ![Len(s)].ret = Some(n)]

\* The step's result: the cursor c, the printed lines o, the stack s.  A stack
\* deeper than the thread's stack ends the process abnormally.
Continue(c, o, s) ==
    /\ pos' = c.pos
    /\ lookahead' = c.la
    /\ eof' = c.eof
    /\ out' = o
    /\ err' = err
    /\ IF Len(s) > MaxStackDepth
       THEN stack' = stack /\ status' = "exhausted"
       ELSE stack' = s /\ status' = "running"
    /\ UNCHANGED input

\* abort: the message on stderr, then process::exit(1).
expected(what, found, c, o) ==
    /\ pos' = c.pos
    /\ lookahead' = c.la
    /\ eof' = c.eof
    /\ out' = o
    /\ err' = <<[what |-> what, found |-> found]>>
    /\ status' = "failed"
    /\ UNCHANGED <<input, stack>>

-----------------------------------------------------------------------------
(* Construction: Compiler::new on the bytes of stdin. *)

Init ==
    /\ input \in Inputs
    /\ pos = 0
    /\ lookahead = None
    /\ eof = FALSE
    /\ out = <<>>
    /\ err = <<>>
    /\ stack = <<Frame("main", "start")>>
    /\ status = "running"

-----------------------------------------------------------------------------
(* main *)

\* get_char, emit_module_start, emit_main_start, then parse_assignment.
MainStart ==
    /\ At("main", "start")
    /\ Continue(get_char(Cur),
                out \o <<Line("module", <<>>), Line("func", <<>>)>>,
                Call("check", "parse_assignment"))

\* Mutation: the run may end on any look-ahead.
IsNewline_Any(c) == TRUE

\* The look-ahead a run may end on.
IsNewline(c) == c = NL

emit_main_end ==
    <<Line("return", <<>>), Line("end_func", <<>>), Line("export", <<>>)>>

emit_module_end == <<Line("end_module", <<>>)>>

\* The newline check, emit_main_end and emit_module_end.
MainCheck ==
    /\ At("main", "check")
    /\ IF lookahead # None /\ IsNewline(lookahead[1])
       THEN /\ out' = out \o emit_main_end \o emit_module_end
            /\ status' = "done"
            /\ stack' = Return
            /\ UNCHANGED <<input, pos, lookahead, eof, err>>
       ELSE expected("newline", Found(Cur), Cur, out)

-----------------------------------------------------------------------------
(* consume_name *)

\* One turn of the loop: push an alphanumeric look-ahead and read on, leave
\* the loop on any other look-ahead, fail on None.
ConsumeName ==
    /\ At("consume_name", "start")
    /\ IF lookahead = None
       THEN expected("name", "nothing", Cur, out)
       ELSE IF is_ascii_alphanumeric(lookahead[1])
       THEN IF Len(Top.name) >= MaxNameLen
            THEN /\ status' = "exhausted"
                 /\ UNCHANGED <<input, pos, lookahead, eof, out, err, stack>>
            ELSE Continue(get_char(Cur), out,
                          [stack EXCEPT ![Len(stack)].name =
                                            Append(@, lookahead[1])])
       ELSE Continue(Cur, out, ReturnName(Top.name))

-----------------------------------------------------------------------------
(* parse_assignment *)

AssignStart ==
    /\ At("parse_assignment", "start")
    /\ Continue(Cur, out, Call("named", "consume_name"))

AssignNamed ==
    /\ At("parse_assignment", "named")
    /\ IF Top.ret = None
       THEN expected("identifier", "nothing", Cur, out)
       ELSE LET name == Top.ret[1]
                o1 == Append(out, Line("local", name))
                r == consume_exact_char("=", Cur)
            IN  IF r.ok
                THEN Continue(r.cur, Append(o1, Line("set_local", name)),
                              CallOn(SetName(name), "close",
                                     "parse_expression"))
                ELSE expected("=", Found(Cur), Cur, o1)

AssignClose ==
    /\ At("parse_assignment", "close")
    /\ Continue(Cur,
                out \o <<Line("end_set", <<>>), Line("get_local", Top.name)>>,
                Return)

-----------------------------------------------------------------------------
(* parse_expression *)

\* Mutation: a leading `-` prints nothing.
emit_zero_Missing == <<>>

\* What a leading `-` prints: the zero the subtraction in the loop takes from.
emit_zero == <<Line("i32.const", <<"0">>)>>

\* The leading `+`, `-` or first term.
ExprStart ==
    /\ At("parse_expression", "start")
    /\ IF lookahead = None
       THEN expected("term or addop", "nothing", Cur, out)
       ELSE IF lookahead[1] = "+"
       THEN Continue(consume_exact_char("+", Cur).cur, out,
                     Call("loop", "parse_term"))
       ELSE IF lookahead[1] = "-"
       THEN Continue(Cur, out \o emit_zero, Resume("loop"))
       ELSE Continue(Cur, out, Call("loop", "parse_term"))

\* One turn of the loop over the add and subtract operations.
ExprLoop ==
    /\ At("parse_expression", "loop")
    /\ IF lookahead = None
       THEN expected("addop", "nothing", Cur, out)
       ELSE IF lookahead[1] = "+"
       THEN Continue(Cur, out, Call("loop", "parse_add"))
       ELSE IF lookahead[1] = "-"
       THEN Continue(Cur, out, Call("loop", "parse_subtract"))
       ELSE Continue(Cur, out, Return)

-----------------------------------------------------------------------------
(* parse_term *)

TermStart ==
    /\ At("parse_term", "start")
    /\ Continue(Cur, out, Call("loop", "parse_factor"))

\* One turn of the loop over the multiply and divide operations.
TermLoop ==
    /\ At("parse_term", "loop")
    /\ IF lookahead = None
       THEN expected("multop", "nothing", Cur, out)
       ELSE IF lookahead[1] = "*"
       THEN Continue(Cur, out, Call("loop", "parse_multiply"))
       ELSE IF lookahead[1] = "/"
       THEN Continue(Cur, out, Call("loop", "parse_divide"))
       ELSE Continue(Cur, out, Return)

-----------------------------------------------------------------------------
(* parse_factor *)

FactorStart ==
    /\ At("parse_factor", "start")
    /\ IF lookahead = None
       THEN expected("expression", "nothing", Cur, out)
       ELSE IF lookahead[1] = "("
       THEN Continue(consume_exact_char("(", Cur).cur, out,
                     Call("close", "parse_expression"))
       ELSE IF is_ascii_alphabetic(lookahead[1])
       THEN Continue(Cur, out, Call("end", "parse_identifier"))
       ELSE LET r == consume_num(Cur)
            IN  IF r.ok
                THEN Continue(r.cur,
                              Append(out, Line("i32.const", <<r.num>>)),
                              Return)
                ELSE expected("integer", Found(Cur), Cur, out)

\* consume_exact_char(')') after the parenthesized expression.
FactorClose ==
    /\ At("parse_factor", "close")
    /\ LET r == consume_exact_char(")", Cur)
       IN  IF r.ok
           THEN Continue(r.cur, out, Return)
           ELSE expected(")", Found(Cur), Cur, out)

\* parse_identifier has returned.
FactorEnd ==
    /\ At("parse_factor", "end")
    /\ Continue(Cur, out, Return)

-----------------------------------------------------------------------------
(* parse_identifier *)

IdentStart ==
    /\ At("parse_identifier", "start")
    /\ Continue(Cur, out, Call("named", "consume_name"))

\* Mutation: the read of a local is not printed.
emit_read_Missing(name) == <<>>

\* Mutation: a name not followed by `(` is printed as a call.
emit_read_AsCall(name) == <<Line("call", name)>>

\* What a name not followed by `(` prints.
emit_read(name) == <<Line("get_local", name)>>

\* The name is a call when `(` follows, and a read of a local otherwise.
IdentNamed ==
    /\ At("parse_identifier", "named")
    /\ LET name == Top.ret[1]
       IN  IF lookahead = None
           THEN Continue(Cur, out, Return)
           ELSE IF lookahead[1] = "("
           THEN LET r1 == consume_exact_char("(", Cur)
                    r2 == consume_exact_char(")", r1.cur)
                IN  IF r2.ok
                    THEN Continue(r2.cur, Append(out, Line("call", name)),
                                  Return)
                    ELSE expected(")", Found(r1.cur), r1.cur, out)
           ELSE Continue(Cur, out \o emit_read(name), Return)

-----------------------------------------------------------------------------
(* parse_add, parse_subtract, parse_multiply, parse_divide *)

\* consume_exact_char(ch), then the call of the operand's procedure fn.
OperatorStart(ch, fn) ==
    LET r == consume_exact_char(ch, Cur)
    IN  IF r.ok
        THEN Continue(r.cur, out, Call("emit", fn))
        ELSE expected(ch, Found(Cur), Cur, out)

\* The operation printed after the operand.
OperatorEmit(op) == Continue(Cur, Append(out, Line(op, <<>>)), Return)

\* Mutation: the operand of `+` is a factor, not a term.
AddStart_Factor ==
    At("parse_add", "start") /\ OperatorStart("+", "parse_factor")

AddStart == At("parse_add", "start") /\ OperatorStart("+", "parse_term")

AddEmit == At("parse_add", "emit") /\ OperatorEmit("i32.add")

SubtractStart ==
    At("parse_subtract", "start") /\ OperatorStart("-", "parse_term")

SubtractEmit == At("parse_subtract", "emit") /\ OperatorEmit("i32.sub")

MultiplyStart ==
    At("parse_multiply", "start") /\ OperatorStart("*", "parse_factor")

MultiplyEmit == At("parse_multiply", "emit") /\ OperatorEmit("i32.mul")

DivideStart ==
    At("parse_divide", "start") /\ OperatorStart("/", "parse_factor")

DivideEmit == At("parse_divide", "emit") /\ OperatorEmit("i32.div_s")

-----------------------------------------------------------------------------

Next ==
    \/ MainStart
    \/ MainCheck
    \/ ConsumeName
    \/ AssignStart
    \/ AssignNamed
    \/ AssignClose
    \/ ExprStart
    \/ ExprLoop
    \/ TermStart
    \/ TermLoop
    \/ FactorStart
    \/ FactorClose
    \/ FactorEnd
    \/ IdentStart
    \/ IdentNamed
    \/ AddStart
    \/ AddEmit
    \/ SubtractStart
    \/ SubtractEmit
    \/ MultiplyStart
    \/ MultiplyEmit
    \/ DivideStart
    \/ DivideEmit

Spec == Init /\ [][Next]_vars

-----------------------------------------------------------------------------
(* What the properties below speak of. *)

Done == status = "done"

Failed == status = "failed"

Ended == status # "running"

\* The lines printed between `(set_local $name` and its closing `)`.
Between(o) ==
    LET i == CHOOSE k \in 1..Len(o) : o[k].op = "set_local"
        j == CHOOSE k \in 1..Len(o) : o[k].op = "end_set"
    IN  SubSeq(o, i + 1, j - 1)

ExprOut == Between(out)

\* The input as the translator sees it: get_char passes over every newline.
Text == SelectSeq(input, LAMBDA c : c # NL)

\* The text after the first `=`: the expression of an accepted assignment.
ExprText ==
    LET i == CHOOSE k \in 1..Len(Text) : Text[k] = "=" /\
                 \A m \in 1..(k - 1) : Text[m] # "="
    IN  SubSeq(Text, i + 1, Len(Text))

Const(d) == Line("i32.const", <<d>>)

BinOp(ch) ==
    Line(CASE ch = "+" -> "i32.add" [] ch = "-" -> "i32.sub"
           [] ch = "*" -> "i32.mul" [] OTHER -> "i32.div_s", <<>>)

\* Position i of s is outside every parenthesis.
TopLevel(s, i) ==
    Cardinality({k \in 1..(i - 1) : s[k] = "("}) =
    Cardinality({k \in 1..(i - 1) : s[k] = ")"})

\* The positions after the first where one of ops stands outside parentheses.
OpPositions(s, ops) == {i \in 2..Len(s) : s[i] \in ops /\ TopLevel(s, i)}

Largest(S) == CHOOSE i \in S : \A k \in S : k <= i

Smallest(S) == CHOOSE i \in S : \A k \in S : i <= k

From(s, i) == SubSeq(s, i, Len(s))

Upto(s, i) == SubSeq(s, 1, i)

-----------------------------------------------------------------------------
(* The postfix form of an expression: the operator applied last is the     *)
(* rightmost `+` or `-` outside parentheses, or else the rightmost `*` or  *)
(* `/`; a sign in front of the whole is 0 - X or X.                        *)

RECURSIVE Postfix(_)
Postfix(s) ==
    IF s = <<>> THEN <<>>
    ELSE IF OpPositions(s, {"+", "-"}) # {}
    THEN LET i == Largest(OpPositions(s, {"+", "-"}))
         IN  Postfix(Upto(s, i - 1)) \o Postfix(From(s, i + 1))
                 \o <<BinOp(s[i])>>
    ELSE IF s[1] = "-"
    THEN <<Const("0")>> \o Postfix(Tail(s)) \o <<BinOp("-")>>
    ELSE IF s[1] = "+"
    THEN Postfix(Tail(s))
    ELSE IF OpPositions(s, {"*", "/"}) # {}
    THEN LET i == Largest(OpPositions(s, {"*", "/"}))
         IN  Postfix(Upto(s, i - 1)) \o Postfix(From(s, i + 1))
                 \o <<BinOp(s[i])>>
    ELSE IF s[1] = "("
    THEN Postfix(SubSeq(s, 2, Len(s) - 1))
    ELSE <<Const(s[1])>>

\* Signed division truncating toward zero.
DivS(a, b) ==
    IF b = 0 THEN 0
    ELSE IF (a >= 0) = (b >= 0)
    THEN (IF a >= 0 THEN a ELSE -a) \div (IF b >= 0 THEN b ELSE -b)
    ELSE -((IF a >= 0 THEN a ELSE -a) \div (IF b >= 0 THEN b ELSE -b))

DigitValue(d) ==
    CASE d = "0" -> 0 [] d = "1" -> 1 [] d = "2" -> 2 [] d = "3" -> 3
      [] d = "4" -> 4 [] d = "5" -> 5 [] d = "6" -> 6 [] d = "7" -> 7
      [] d = "8" -> 8 [] OTHER -> 9

\* The operand stack after the instructions p[i..], begun with stack st;
\* <<"trap">> when an operation finds fewer than two operands.
RECURSIVE Exec(_, _, _)
Exec(p, i, st) ==
    IF i > Len(p) THEN st
    ELSE IF p[i].op = "i32.const"
    THEN Exec(p, i + 1, Append(st, DigitValue(p[i].arg[1])))
    ELSE IF Len(st) < 2 THEN <<"trap">>
    ELSE LET a == st[Len(st) - 1]
             b == st[Len(st)]
             r == CASE p[i].op = "i32.add" -> a + b
                    [] p[i].op = "i32.sub" -> a - b
                    [] p[i].op = "i32.mul" -> a * b
                    [] OTHER -> DivS(a, b)
         IN  Exec(p, i + 1, Append(SubSeq(st, 1, Len(st) - 2), r))

ArithChars == Digits \cup {"+", "-", "*", "/", "(", ")"}

IsArith(s) == \A k \in 1..Len(s) : s[k] \in ArithChars

\* C2: the lines printed for an accepted expression of digits, operators and
\* parentheses are its postfix form under the usual precedence and left
\* associativity; run on a stack machine, 1+2*3 leaves 7, (1+2)*3 leaves 9
\* and 8-3-2 leaves 3.
C2_PostfixOfPrecedence ==
    /\ (Done /\ IsArith(ExprText)) => ExprOut = Postfix(ExprText)
    /\ (Ended /\ input = Assign(<<"1", "+", "2", "*", "3">>))
          => Done /\ Exec(ExprOut, 1, <<>>) = <<7>>
    /\ (Ended /\ input = Assign(<<"(", "1", "+", "2", ")", "*", "3">>))
          => Done /\ Exec(ExprOut, 1, <<>>) = <<9>>
    /\ (Ended /\ input = Assign(<<"8", "-", "3", "-", "2">>))
          => Done /\ Exec(ExprOut, 1, <<>>) = <<3>>

C2_Witness ==
    /\ Done
    /\ input = Assign(<<"1", "+", "2", "*", "3">>)
    /\ ExprOut = <<Const("1"), Const("2"), Const("3"), BinOp("*"), BinOp("+")>>

-----------------------------------------------------------------------------
(* The translation of the grammar, production by production:               *)
(*   Expression ::= [ '+' | '-' ] Term { ('+'|'-') Term }                  *)
(*   Term       ::= Factor { ('*'|'/') Factor }                            *)
(*   Factor     ::= '(' Expression ')' | Identifier [ '(' ')' ] | Number   *)
(* with a leading `-` translated as 0 - Term and a leading `+` dropped.    *)

\* Where the first Term (Factor) of s ends: before the first of ops outside
\* parentheses.
FirstEnd(s, ops) ==
    IF OpPositions(s, ops) = {} THEN Len(s)
    ELSE Smallest(OpPositions(s, ops)) - 1

RECURSIVE ExprEmission(_), TermEmission(_), RestEmission(_, _, _)

\* A Factor.
FactorEmission(f) ==
    IF f = <<>> THEN <<>>
    ELSE IF f[1] = "("
    THEN ExprEmission(SubSeq(f, 2, Len(f) - 1))
    ELSE IF is_digit(f[1])
    THEN <<Const(f[1])>>
    ELSE IF f[Len(f)] = ")"
    THEN <<Line("call", Upto(f, Len(f) - 2))>>
    ELSE <<Line("get_local", f)>>

\* The operations { op operand } that follow a first operand: each operand
\* (a Factor if factors, else a Term) followed by its operation.
RestEmission(r, ops, factors) ==
    IF r = <<>> THEN <<>>
    ELSE LET n == FirstEnd(Tail(r), ops)
             operand == Upto(Tail(r), n)
         IN  (IF factors THEN FactorEmission(operand)
              ELSE TermEmission(operand))
                 \o <<BinOp(r[1])>>
                 \o RestEmission(From(Tail(r), n + 1), ops, factors)

\* A Term: its first Factor, then every further Factor followed by its
\* operation.
TermEmission(t) ==
    LET n == FirstEnd(t, {"*", "/"})
    IN  FactorEmission(Upto(t, n))
            \o RestEmission(From(t, n + 1), {"*", "/"}, TRUE)

\* An Expression that begins with `-`: the zero, the first Term, the
\* subtraction, then the remaining operations.
MinusEmission(s) ==
    LET n == FirstEnd(Tail(s), {"+", "-"})
    IN  <<Const("0")>> \o TermEmission(Upto(Tail(s), n)) \o <<BinOp("-")>>
            \o RestEmission(From(Tail(s), n + 1), {"+", "-"}, FALSE)

\* An Expression that begins with a Term.
PlainEmission(s) ==
    LET n == FirstEnd(s, {"+", "-"})
    IN  TermEmission(Upto(s, n))
            \o RestEmission(From(s, n + 1), {"+", "-"}, FALSE)

ExprEmission(s) ==
    IF s = <<>> THEN <<>>
    ELSE IF s[1] = "-" THEN MinusEmission(s)
    ELSE IF s[1] = "+" THEN PlainEmission(Tail(s))
    ELSE PlainEmission(s)

\* Some Expression of s, s itself or one in parentheses, begins with a sign.
HasSign(s) ==
    \E i \in 1..Len(s) :
        /\ s[i] \in {"+", "-"}
        /\ i = 1 \/ s[i - 1] = "("

\* C6: an accepted Expression that begins with `-`, at the top or in
\* parentheses, prints the zero, the lines of its first Term, the subtraction
\* and then the remaining operations; one that begins with `+` prints what the
\* same Expression without the `+` prints (the last conjunct: every accepted
\* Expression that begins with its Term prints that same translation).
C6_LeadingSign ==
    (Done /\ ExprText # <<>>) =>
        /\ HasSign(ExprText) => ExprOut = ExprEmission(ExprText)
        /\ ExprText[1] = "-" => ExprOut = MinusEmission(ExprText)
        /\ ExprText[1] = "+" => ExprOut = PlainEmission(Tail(ExprText))
        /\ ExprText[1] \notin {"+", "-"} => ExprOut = PlainEmission(ExprText)

C6_Witness ==
    /\ Done
    /\ input = Assign(<<"-", "(", "+", "1", "-", "2", ")", "*", "y">>)
    /\ ExprOut = <<Const("0"), Const("1"), Const("2"), BinOp("-"),
                   Line("get_local", <<"y">>), BinOp("*"), BinOp("-")>>

-----------------------------------------------------------------------------
(* Completion and the shape of what is printed. *)

\* C9: a run completes (main prints `(return)` and the closing lines) only
\* with every byte of the input read and a newline as the last byte.
C9_DoneOnlyAtFinalNewline ==
    (Done \/ \E k \in 1..Len(out) : out[k].op = "return") =>
        /\ pos = Len(input)
        /\ input # <<>>
        /\ input[Len(input)] = NL

C9_Witness ==
    /\ Done
    /\ input = <<"x", NL, "=", NL, "1", NL, NL>>
    /\ out[Len(out)].op = "end_module"

\* The lines p[i..] run from an operand stack of depth d: every operation
\* finds two operands, every push adds one, and one value is left.
RECURSIVE StackOK(_, _, _)
StackOK(p, i, d) ==
    IF i > Len(p) THEN d = 1
    ELSE IF p[i].op \in {"i32.const", "get_local", "call"}
    THEN StackOK(p, i + 1, d + 1)
    ELSE IF p[i].op \in {"i32.add", "i32.sub", "i32.mul", "i32.div_s"}
    THEN d >= 2 /\ StackOK(p, i + 1, d - 1)
    ELSE FALSE

\* C10: on a successful run the lines between `(set_local $name` and its `)`
\* are a well-formed stack program that leaves exactly one value.
C10_WellFormedStackProgram == Done => StackOK(ExprOut, 1, 0)

C10_Witness ==
    /\ Done
    /\ input = Assign(<<"a", "b", "+", "y", "(", ")", "*", "2">>)
    /\ ExprOut = <<Line("get_local", <<"a", "b">>), Line("call", <<"y">>),
                   Const("2"), BinOp("*"), BinOp("+")>>

-----------------------------------------------------------------------------
(* The end of a run and the end of the input. *)

\* C1: every run ends by completing or by a diagnostic: none goes on until the
\* process runs out of stack or memory.
C1_EndsDoneOrDiagnosed == status \in {"running", "done", "failed"}

\* C3: once the stream has reported its end to get_char, the look-ahead is
\* None.
C3_NoneAtEndOfInput == eof => lookahead = None

\* C8: when the assignment begins on a character that is not alphanumeric, no
\* `(local` or `(set_local` line is printed and the run fails with
\* `expected identifier`.
C8_TargetRequired ==
    (Text # <<>> /\ ~is_ascii_alphanumeric(Text[1])) =>
        /\ \A k \in 1..Len(out) : out[k].op \notin {"local", "set_local"}
        /\ Ended => Failed /\ err[1].what = "identifier"

-----------------------------------------------------------------------------
(* Numbers. *)

\* The input is `x=` D `\n` with D a run of one or more digits.
AssignsDigits ==
    /\ Len(input) >= 4
    /\ Upto(input, 2) = <<"x", "=">>
    /\ input[Len(input)] = NL
    /\ \A k \in 3..(Len(input) - 1) : input[k] \in Digits

DigitRun == SubSeq(input, 3, Len(input) - 1)

\* C4 as stated: a run of digits is one number, printed as one push of its
\* decimal value, and the assignment is accepted.
C4_MaximalDigitRun ==
    (Ended /\ AssignsDigits) =>
        Done /\ ExprOut = <<Line("i32.const", DigitRun)>>

\* C4, amended: a number is exactly one digit, printed as one push of that
\* digit; a second digit is left as the look-ahead, so `x=12` prints the one
\* push `(i32.const 1)` and is rejected with `expected newline, found 2`.
C4_SingleDigit ==
    (Ended /\ AssignsDigits) =>
        IF Len(DigitRun) = 1
        THEN Done /\ ExprOut = <<Const(DigitRun[1])>>
        ELSE /\ Failed
             /\ err = <<[what |-> "newline", found |-> DigitRun[2]]>>
             /\ ExprOut = <<Const(DigitRun[1])>>

C4_Witness ==
    /\ Failed
    /\ input = Assign(<<"1", "2">>)
    /\ ExprOut = <<Const("1")>>
    /\ err = <<[what |-> "newline", found |-> "2"]>>

-----------------------------------------------------------------------------
(* Identifiers. *)

\* Line k of o reads a local that no earlier line of o declares.
ReadsUndeclared(o, k) ==
    /\ o[k].op = "get_local"
    /\ \A j \in 1..(k - 1) : ~(o[j].op = "local" /\ o[j].arg = o[k].arg)

AssignsName ==
    /\ Len(input) >= 4
    /\ Upto(input, 2) = <<"x", "=">>
    /\ input[Len(input)] = NL
    /\ is_ascii_alphabetic(input[3])
    /\ \A k \in 3..(Len(input) - 1) : is_ascii_alphanumeric(input[k])

-----------------------------------------------------------------------------
(* The control-flow notation. *)

\* If with condition a, then-block b, else-block c, and the terminator e.
IfProgram == <<"i", "a", "b", "l", "c", "e", "e">>

====
